---------------------------- MODULE Spec2Model ----------------------------
(***************************************************************************)
(* A model of src/src/App.jsx: the browser chat widget whose "model" is a  *)
(* tiny transformer decoding over a KV cache kept in memory                *)
(* (kvCacheRef) and mirrored, fire-and-forget, into IndexedDB.             *)
(*                                                                         *)
(* Scheduling is that of the JavaScript event loop: one macrotask (a user  *)
(* event, an IndexedDB event, a timer) runs at a time, and before the next *)
(* macrotask starts the microtask queue (the continuations of awaits on    *)
(* already settled promises) is drained in FIFO order.                     *)
(*                                                                         *)
(* Numbers: the program computes in IEEE doubles with d_model = 32,        *)
(* vocab_size = 100 and maxTokens = 100.  The model computes in integers   *)
(* (weights in -2..2 standing for Math.random()*0.2-0.1, softmax in fixed  *)
(* point with base 2) and scales the three sizes down; every formula is    *)
(* written in terms of the names, not of the scaled values.                *)
(***************************************************************************)
EXTENDS Integers, Sequences, FiniteSets, TLC

\* ------------------------------------------------------------------ sizes
\* App.jsx:35.
n_layers == 2
\* App.jsx:34 has 32; scaled.
d_model == 2
\* App.jsx:36 has 100; scaled.
vocab_size == 4
\* App.jsx:37: the last token is EOS.
EOS == vocab_size - 1
\* App.jsx:38 has 100; scaled.
maxTokens == 2
\* How many times the user sends a message in one process.
MaxSends == 2
\* Length of the entry an earlier session may have left for a layer.
MaxPersisted == 1
\* Number of weight draws (values of Math.random at module load) explored.
NumSeeds == 2
\* One in fixed point: softmax probabilities are multiples of 1/ExpScale.
ExpScale == 4
\* Largest number of rows and of columns of a matrix handed to matMul alone.
MaxDim == 2
\* Largest magnitude of a number handed to a pure function alone.
MaxEntry == 1

Layers == 0 .. (n_layers - 1)
Tokens == 0 .. (vocab_size - 1)
Seeds == 1 .. NumSeeds

VARIABLES
    seed,        \* the draw of Math.random that fixed the weights (App.jsx:46-51)
    heap,        \* the {keys, values} objects alive in memory, by identity
    kvCacheRef,  \* kvCacheRef.current: layer -> object identity or undefined
    persisted,   \* the IndexedDB object store kvCache: layer -> stored clone
    dbQueue,     \* indexedDB.open requests not yet answered, in order
    loader,      \* the async function of the start-up effect (App.jsx:86-92)
    sends,       \* one record per handleSend invocation
    nSends,      \* handleSend invocations that passed the trim guard
    microtasks,  \* the microtask queue
    messages,    \* React state: the chat messages
    stepLog,     \* history: one record per transformerStep invocation
    startStore,  \* history: what the object store held at process start
    probe        \* a single call of one of the pure functions, and its result

vars == <<seed, heap, kvCacheRef, persisted, dbQueue, loader, sends, nSends,
          microtasks, messages, stepLog, startStore, probe>>

\* ------------------------------------------------------------ math helpers
\* The element of a one-element set.  {F(v) : v \in {e}} computes e once and
\* names its value v; Only(...) takes F(v) out again.
Only(S) == CHOOSE v \in S : TRUE

RECURSIVE SumSeq(_)
SumSeq(s) == IF s = <<>> THEN 0 ELSE Head(s) + SumSeq(Tail(s))

RECURSIVE MaxSeq(_)
MaxSeq(s) == IF Len(s) = 1 THEN s[1]
             ELSE LET m == MaxSeq(Tail(s)) IN IF s[1] >= m THEN s[1] ELSE m

RECURSIVE Pow2(_)
Pow2(n) == IF n = 0 THEN 1 ELSE 2 * Pow2(n - 1)

\* Math.exp(d) for d <= 0, in fixed point: ExpScale * 2^d, rounded down.
Exp(d) == IF -d > ExpScale THEN 0 ELSE ExpScale \div Pow2(-d)

\* What arithmetic gives when an operand is read past the end of an array
\* (undefined): NaN.  It is kept apart from every number the model computes.
NaN == -1000000

\* App.jsx:54-62.  rows = A.length, cols = B[0].length, K = B.length.  Nothing
\* compares the shapes: of a row of A longer than K the rest is not read, and
\* in a row shorter than K A[i][k] is undefined, which makes the sum NaN.
matMul(A0, B0) ==
    Only({LET rows == Len(A)
              cols == Len(B[1])
              K == Len(B)
          IN [i \in 1 .. rows |->
                [j \in 1 .. cols |->
                   IF K > Len(A[i]) THEN NaN
                   ELSE SumSeq([k \in 1 .. K |-> A[i][k] * B[k][j]])]] :
            A \in {A0}, B \in {B0}})

\* App.jsx:64-69.
softmax(vec0) ==
    Only({Only({Only({[i \in 1 .. Len(vec) |-> (exps[i] * ExpScale) \div sum] :
                        sum \in {SumSeq(exps)}}) :
                  exps \in {[i \in 1 .. Len(vec) |-> Exp(vec[i] - max)]}}) :
            vec \in {vec0}, max \in {MaxSeq(vec0)}})

\* An argmax that resolves ties by the last occurrence (lastIndexOf).
IndexOfMax_LastOccurrence(logits0) ==
    Only({(CHOOSE i \in 1 .. Len(logits) :
             /\ logits[i] = max
             /\ \A j \in (i + 1) .. Len(logits) : logits[j] # max) - 1 :
            logits \in {logits0}, max \in {MaxSeq(logits0)}})

\* logits.indexOf(Math.max(...logits)), App.jsx:117: the first index (from 0)
\* holding the maximum.
IndexOfMax(logits0) ==
    Only({(CHOOSE i \in 1 .. Len(logits) :
             /\ logits[i] = max
             /\ \A j \in 1 .. (i - 1) : logits[j] # max) - 1 :
            logits \in {logits0}, max \in {MaxSeq(logits0)}})

\* ----------------------------------------------------------------- weights
\* randomMatrix, App.jsx:40-44: one entry of the matrix `tag` of layer l, as
\* drawn under `seed`; an integer of -2 .. 2 stands for a float of [-0.1, 0.1).
randomEntry(tag, l, i, j) ==
    ((seed * 4 + tag * 3 + l * 2 + i * 2 + j * 13 + i * j * 8 + seed * i * 11
        + tag * j * 8) % 5) - 2

randomMatrix(tag, l, rows, cols) ==
    [i \in 1 .. rows |-> [j \in 1 .. cols |-> randomEntry(tag, l, i, j)]]

Wq(l) == randomMatrix(1, l, d_model, d_model)
Wk(l) == randomMatrix(2, l, d_model, d_model)
Wv(l) == randomMatrix(3, l, d_model, d_model)
Wo(l) == randomMatrix(4, l, d_model, d_model)
W_embed == randomMatrix(5, 0, vocab_size, d_model)
W_out == randomMatrix(6, 0, d_model, vocab_size)


\* ------------------------------------------------------------ the KV cache
\* The value of a missing entry, App.jsx:28-29 and 97.
EmptyKV == [keys |-> <<>>, values |-> <<>>]

\* kvCacheRef.current[l] of a layer nothing was assigned to (useRef({}),
\* App.jsx:83).
undefined == -1

\* Identities of the objects the program creates: the literal of App.jsx:97
\* (at most once per layer, since the entry is assigned at line 112) and the
\* result of getKV (once per layer, App.jsx:89).
StepObj(l) == l
LoadObj(l) == n_layers + l

\* What a decoder step reads for layer l: kvCacheRef.current[l] || {keys: [],
\* values: []}, App.jsx:97, as a value.
EntryOf(h, ref, l) == IF ref[l] = undefined THEN EmptyKV ELSE h[ref[l]]

CacheValue(l) == EntryOf(heap, kvCacheRef, l)

CacheState == [l \in Layers |-> CacheValue(l)]

\* ------------------------------------------------------------ decoder step
\* Attention of the query q over the cache as it is after the two pushes,
\* App.jsx:104-111: scores and probs have one entry per key, attn sums over
\* the values (App.jsx:107), and x is the projection through Wo.  With more
\* values than keys probs[i] is undefined for the last values, so attn, and
\* with it x, is NaN; with more keys than values the last probs are not used.
Attention(l, q, keys, values) ==
    Only({Only({Only({[kv |-> [keys |-> keys, values |-> values],
                       scores |-> scores,
                       x |-> IF Len(values) > Len(probs)
                             THEN [j \in 1 .. d_model |-> NaN]
                             ELSE matMul(<<attn>>, Wo(l))[1]] :
                        attn \in {[j \in 1 .. d_model |->
                                     IF Len(values) > Len(probs) THEN NaN
                                     ELSE SumSeq([i \in 1 .. Len(values) |->
                                                    values[i][j] * probs[i]])]}}) :
                  probs \in {softmax(scores)}}) :
            scores \in {[p \in 1 .. Len(keys) |->
                           SumSeq([i \in 1 .. Len(keys[p]) |->
                                     keys[p][i] * q[i]])]}})

\* AttendLayer without the push of App.jsx:102.
AttendLayer_ValueNotPushed(l, x, kv) ==
    Only({Attention(l, q, keys, values) :
            q \in {matMul(<<x>>, Wq(l))[1]},
            keys \in {Append(kv.keys, matMul(<<x>>, Wk(l))[1])},
            values \in {kv.values}})

\* AttendLayer with the cache scored before the two pushes: the current
\* token does not attend to itself (with nothing cached, attn stays zero).
AttendLayer_ScoredBeforePush(l, x, kv) ==
    Only({IF kv.keys = <<>>
          THEN [kv |-> after, scores |-> <<>>,
                x |-> matMul(<<[j \in 1 .. d_model |-> 0]>>, Wo(l))[1]]
          ELSE [Attention(l, q, kv.keys, kv.values) EXCEPT !.kv = after] :
            q \in {matMul(<<x>>, Wq(l))[1]},
            after \in {[keys |-> Append(kv.keys, matMul(<<x>>, Wk(l))[1]),
                        values |-> Append(kv.values, matMul(<<x>>, Wv(l))[1])]}})

\* One layer of transformerStep on the input vector x and the entry kv,
\* App.jsx:98-111: the new key and value are pushed, then every cached key is
\* scored against the query.
AttendLayer(l, x, kv) ==
    Only({Attention(l, q, keys, values) :
            q \in {matMul(<<x>>, Wq(l))[1]},
            keys \in {Append(kv.keys, matMul(<<x>>, Wk(l))[1])},
            values \in {Append(kv.values, matMul(<<x>>, Wv(l))[1])}})

\* putKV(l, kv), App.jsx:16-17: openDB() is called at once, so the open
\* request joins the queue now; kv is the live object, not a copy.
PutRequest(l, obj) == [kind |-> "put", layer |-> l, obj |-> obj]

\* getKV(l), App.jsx:24-25.
GetRequest(l) == [kind |-> "get", layer |-> l, obj |-> LoadObj(l)]

\* The loop over the layers of transformerStep, App.jsx:96-114, from layer l
\* on; m is the memory it works on: [x, heap, ref, queue].
RECURSIVE StepLayers(_, _)
StepLayers(l, m) ==
    IF l >= n_layers THEN m
    ELSE LET obj == IF m.ref[l] = undefined THEN StepObj(l) ELSE m.ref[l]
         IN Only({StepLayers(l + 1, next) :
                next \in {[x |-> r.x,
                           heap |-> [o \in DOMAIN m.heap \cup {obj} |->
                                       IF o = obj THEN r.kv ELSE m.heap[o]],
                           ref |-> [m.ref EXCEPT ![l] = obj],
                           queue |-> Append(m.queue, PutRequest(l, obj))] :
                          r \in {AttendLayer(l, m.x, EntryOf(m.heap, m.ref, l))}}})

\* A step whose token also depends on something that is neither its input
\* token nor the cache: here the number of saves still pending.
transformerStep_ReadsPendingSaves(inputToken, h, ref, queue) ==
    Only({[maxIdx |-> (IndexOfMax(matMul(<<m.x>>, W_out)[1]) + Len(queue))
                          % vocab_size,
           heap |-> m.heap, ref |-> m.ref, queue |-> m.queue] :
            m \in {StepLayers(0, [x |-> W_embed[inputToken + 1], heap |-> h,
                                  ref |-> ref, queue |-> queue])}})

\* transformerStep(inputToken), App.jsx:94-119, run on the heap h, the cache
\* references ref and the open queue: the token returned and what it left.
transformerStep(inputToken, h, ref, queue) ==
    Only({[maxIdx |-> IndexOfMax(matMul(<<m.x>>, W_out)[1]),
           heap |-> m.heap, ref |-> m.ref, queue |-> m.queue] :
            m \in {StepLayers(0, [x |-> W_embed[inputToken + 1], heap |-> h,
                                  ref |-> ref, queue |-> queue])}})

\* --------------------------------------------------------------- tokenizer
\* User texts as sequences of character codes; 32 is the space.
Texts == {<<>>, <<32>>, <<66>>, <<32, 66>>, <<32, 67>>}

IsSpace(c) == c = 32

\* input.trim() is empty, App.jsx:134.
TrimIsEmpty(str) == \A i \in 1 .. Len(str) : IsSpace(str[i])

\* An encode that takes the code modulo vocab_size.
encode_ModVocabSize(str) == [i \in 1 .. Len(str) |-> str[i] % vocab_size]

\* App.jsx:72-74.
encode(str) == [i \in 1 .. Len(str) |-> str[i] % (vocab_size - 1)]

\* App.jsx:75-77, as character codes.
RECURSIVE decode(_)
decode(arr) ==
    IF arr = <<>> THEN <<>>
    ELSE (IF Head(arr) = EOS THEN <<>> ELSE <<Head(arr) + 65>>) \o decode(Tail(arr))

\* ------------------------------------------------------------------ state
Vec(c) == [i \in 1 .. d_model |-> c]

\* An entry of n pairs as an earlier session left it: its vectors were
\* computed under that session's weights, so they are unrelated to this
\* session's.
OldEntry(n) == [keys |-> [p \in 1 .. n |-> Vec(p)],
                values |-> [p \in 1 .. n |-> Vec(1 - p)]]

\* What the object store may hold at process start: for each layer nothing,
\* or a clone that an earlier putKV stored (keys and values of one length,
\* at least one pair, since every put follows the two pushes).
PersistedAtStart ==
    UNION {[present -> {OldEntry(n) : n \in 1 .. MaxPersisted}] :
             present \in SUBSET Layers}

SendIds == 1 .. MaxSends

\* A handleSend invocation that has not happened yet.
IdleSend == [pc |-> "idle", userTokens |-> <<>>, outputTokens |-> <<>>,
             inputToken |-> 0, i |-> 0, tok |-> 0, typed |-> 0]

\* No pure function is being probed: the program itself runs.
NoProbe == [op |-> "none", done |-> FALSE, result |-> <<>>]

\* After construction: the component has mounted and its effect has called
\* getKV(0), whose openDB() is pending (App.jsx:86-89, 24-25, 7-9).
Init ==
    /\ seed \in Seeds
    /\ heap = <<>>
    /\ kvCacheRef = [l \in Layers |-> undefined]
    /\ persisted \in PersistedAtStart
    /\ dbQueue = <<GetRequest(0)>>
    /\ loader = [pc |-> "awaitOpen", layer |-> 0, result |-> EmptyKV,
                 failed |-> {}, loadedLen |-> [l \in Layers |-> 0]]
    /\ sends = [s \in SendIds |-> IdleSend]
    /\ nSends = 0
    /\ microtasks = <<>>
    /\ messages = <<>>
    /\ stepLog = <<>>
    /\ startStore = persisted
    /\ probe = NoProbe

\* An event loop that takes macrotasks while a continuation is queued: what
\* generateBotResponse would meet if it awaited a timer between two steps.
MacrotaskMayRun_Always == TRUE

\* The event loop takes the next macrotask only when no microtask is queued:
\* the await of App.jsx:125 is on a promise that is already resolved.
MacrotaskMayRun == microtasks = <<>>

\* ---------------------------------------------------------- generation loop
\* A call of transformerStep(inputToken) by send s, App.jsx:125, and what it
\* leaves in memory; the caller then suspends at the await.
CallStep(s, inputToken) ==
    \E r \in {transformerStep(inputToken, heap, kvCacheRef, dbQueue)} :
       /\ heap' = r.heap
       /\ kvCacheRef' = r.ref
       /\ dbQueue' = r.queue
       /\ stepLog' = Append(stepLog,
              [send |-> s, inputToken |-> inputToken, before |-> CacheState,
               out |-> r.maxIdx,
               after |-> [l \in Layers |-> EntryOf(r.heap, r.ref, l)]])

\* Where the continuation of `await transformerStep(...)` of send s is queued,
\* App.jsx:125: the promise is already resolved, so it is a microtask.
AwaitStep(s) == microtasks' = Append(microtasks, s)

\* A loop that starts from the last token of the user's text.
FirstToken_Last(userTokens) == userTokens[Len(userTokens)]

\* let inputToken = userTokens[0], App.jsx:123.
FirstToken(userTokens) == userTokens[1]

\* handleSend, App.jsx:133-140, for the text the user has typed: the messages
\* get the user's text, and generateBotResponse runs up to its first await,
\* that is through the first transformerStep (App.jsx:121-125; maxTokens is
\* positive, so the loop is entered).
handleSend(text) ==
    /\ MacrotaskMayRun
    /\ nSends < MaxSends
    /\ ~TrimIsEmpty(text)
    /\ LET s == nSends + 1
           userTokens == encode(text)
       IN /\ nSends' = s
          /\ messages' = Append(messages, [role |-> "user", text |-> text])
          /\ CallStep(s, FirstToken(userTokens))
          /\ sends' = [sends EXCEPT ![s] =
                 [pc |-> "awaitStep", userTokens |-> userTokens,
                  outputTokens |-> <<>>, inputToken |-> FirstToken(userTokens),
                  i |-> 0, tok |-> stepLog'[Len(stepLog')].out, typed |-> 0]]
          /\ AwaitStep(s)
    /\ UNCHANGED <<probe, startStore, seed, persisted, loader>>

\* The loop feeding its first input back again instead of the new token.
NextInput_Stale(inputToken, tok) == inputToken

\* inputToken = tok, App.jsx:128: the input of the next step.
NextInput(inputToken, tok) == tok

\* The loop condition written i <= maxTokens.
LoopContinues_OffByOne(i) == i <= maxTokens

\* The condition of the loop of generateBotResponse, App.jsx:124.
LoopContinues(i) == i < maxTokens

\* The loop of generateBotResponse resumed with the token of the step it
\* awaited, App.jsx:125-130: break on EOS, else push, feed back, count, and
\* either call the next step or leave the loop.  Returning resolves the
\* promise handleSend awaits (App.jsx:140), whose continuation is a microtask.
generateBotResponse(s) ==
    /\ microtasks # <<>>
    /\ Head(microtasks) = s
    /\ sends[s].pc = "awaitStep"
    /\ LET self == sends[s]
           tok == self.tok
       IN IF tok = EOS \/ ~LoopContinues(self.i + 1)
          THEN /\ sends' = [sends EXCEPT ![s] =
                      [self EXCEPT !.pc = "awaitGenerate",
                                   !.outputTokens =
                                       IF tok = EOS THEN self.outputTokens
                                       ELSE Append(self.outputTokens, tok),
                                   !.inputToken =
                                       IF tok = EOS THEN self.inputToken
                                       ELSE NextInput(self.inputToken, tok),
                                   !.i = IF tok = EOS THEN self.i ELSE self.i + 1]]
               /\ microtasks' = Append(Tail(microtasks), s)
               /\ UNCHANGED <<heap, kvCacheRef, dbQueue, stepLog>>
          ELSE /\ CallStep(s, NextInput(self.inputToken, tok))
               /\ sends' = [sends EXCEPT ![s] =
                      [self EXCEPT !.outputTokens = Append(self.outputTokens, tok),
                                   !.inputToken = NextInput(self.inputToken, tok),
                                   !.i = self.i + 1,
                                   !.tok = stepLog'[Len(stepLog')].out]]
               /\ microtasks' = Append(Tail(microtasks), s)
    /\ UNCHANGED <<probe, startStore, seed, persisted, loader, nSends, messages>>

\* ----------------------------------------------------------- typing effect
\* handleSend resumed with botTokens, App.jsx:140-145: the empty bot message
\* is added, and the first iteration of the typing loop, if there is one,
\* waits for its 50 ms timer.
handleSendResume(s) ==
    /\ microtasks # <<>>
    /\ Head(microtasks) = s
    /\ sends[s].pc = "awaitGenerate"
    /\ microtasks' = Tail(microtasks)
    /\ messages' = Append(messages, [role |-> "bot", text |-> <<>>])
    /\ sends' = [sends EXCEPT ![s].pc =
           IF Len(sends[s].outputTokens) > 0 THEN "typing" ELSE "done"]
    /\ UNCHANGED <<probe, startStore, seed, heap, kvCacheRef, persisted, dbQueue, loader, nSends,
                   stepLog>>

\* The timer of send s fires, App.jsx:145-152: the character of the next bot
\* token is added to the text of the last message, whichever that is.
typingTick(s) ==
    /\ MacrotaskMayRun
    /\ sends[s].pc = "typing"
    /\ LET n == Len(messages)
           c == decode(<<sends[s].outputTokens[sends[s].typed + 1]>>)
       IN messages' = [messages EXCEPT ![n].text = @ \o c]
    /\ sends' = [sends EXCEPT
           ![s].typed = @ + 1,
           ![s].pc = IF sends[s].typed + 1 < Len(sends[s].outputTokens)
                     THEN "typing" ELSE "done"]
    /\ UNCHANGED <<probe, startStore, seed, heap, kvCacheRef, persisted, dbQueue, loader, nSends,
                   microtasks, stepLog>>

\* -------------------------------------------------------------- persistence
\* The open request at the head of the queue is for a putKV and succeeds, and
\* the transaction commits, App.jsx:17-20: the store gets a structured clone
\* of the object as it is now.
putKVStored ==
    /\ MacrotaskMayRun
    /\ dbQueue # <<>>
    /\ Head(dbQueue).kind = "put"
    /\ LET req == Head(dbQueue)
       IN persisted' = [l \in DOMAIN persisted \cup {req.layer} |->
                          IF l = req.layer THEN heap[req.obj] ELSE persisted[l]]
    /\ dbQueue' = Tail(dbQueue)
    /\ UNCHANGED <<probe, startStore, seed, heap, kvCacheRef, loader, sends, nSends, microtasks,
                   messages, stepLog>>

\* A failed save that reaches the cache: the entry of the layer is dropped.
putKVFailed_DropsEntry ==
    /\ MacrotaskMayRun
    /\ dbQueue # <<>>
    /\ Head(dbQueue).kind = "put"
    /\ dbQueue' = Tail(dbQueue)
    /\ kvCacheRef' = [kvCacheRef EXCEPT ![Head(dbQueue).layer] = undefined]
    /\ UNCHANGED <<probe, startStore, seed, heap, persisted, loader, sends, nSends,
                   microtasks, messages, stepLog>>

\* The open request of a putKV fails (App.jsx:12) or its transaction aborts:
\* the promise nobody awaits rejects, and the store keeps what it had.
putKVFailed ==
    /\ MacrotaskMayRun
    /\ dbQueue # <<>>
    /\ Head(dbQueue).kind = "put"
    /\ dbQueue' = Tail(dbQueue)
    /\ UNCHANGED <<probe, startStore, seed, heap, kvCacheRef, persisted, loader, sends, nSends,
                   microtasks, messages, stepLog>>

\* The open request of getKV(l) succeeds, App.jsx:25-27: the read-only
\* transaction is created now, so the get will answer with what the store
\* holds now (ok), or fail (not ok); either way getKV resolves later, on the
\* request's event (App.jsx:28-29).
getKVOpened(ok) ==
    /\ MacrotaskMayRun
    /\ dbQueue # <<>>
    /\ Head(dbQueue).kind = "get"
    /\ loader.pc = "awaitOpen"
    /\ LET l == Head(dbQueue).layer
       IN loader' = [loader EXCEPT
              !.pc = "awaitGet",
              !.result = IF ok /\ l \in DOMAIN persisted
                         THEN persisted[l] ELSE EmptyKV,
              !.failed = IF ok THEN @ ELSE @ \cup {l}]
    /\ dbQueue' = Tail(dbQueue)
    /\ UNCHANGED <<probe, startStore, seed, heap, kvCacheRef, persisted, sends, nSends,
                   microtasks, messages, stepLog>>

\* The open request of getKV(l) fails, App.jsx:12: openDB rejects, getKV has
\* no handler for it, and the await of App.jsx:89 throws out of the loop.
getKVOpenFailed ==
    /\ MacrotaskMayRun
    /\ dbQueue # <<>>
    /\ Head(dbQueue).kind = "get"
    /\ loader.pc = "awaitOpen"
    /\ loader' = [loader EXCEPT !.pc = "rejected",
                                !.failed = @ \cup {Head(dbQueue).layer}]
    /\ dbQueue' = Tail(dbQueue)
    /\ UNCHANGED <<probe, startStore, seed, heap, kvCacheRef, persisted, sends, nSends,
                   microtasks, messages, stepLog>>

\* getKV(l) resolves and the effect's loop goes on, App.jsx:88-90: the result
\* is assigned to kvCacheRef.current[l], and getKV(l + 1), if any, is called.
loadAssign ==
    /\ MacrotaskMayRun
    /\ loader.pc = "awaitGet"
    /\ LET l == loader.layer
           obj == LoadObj(l)
       IN /\ heap' = [o \in DOMAIN heap \cup {obj} |->
                        IF o = obj THEN loader.result ELSE heap[o]]
          /\ kvCacheRef' = [kvCacheRef EXCEPT ![l] = obj]
          /\ IF l + 1 < n_layers
             THEN /\ loader' = [loader EXCEPT
                         !.pc = "awaitOpen", !.layer = l + 1,
                         !.result = EmptyKV,
                         !.loadedLen[l] = Len(loader.result.keys)]
                  /\ dbQueue' = Append(dbQueue, GetRequest(l + 1))
             ELSE /\ loader' = [loader EXCEPT
                         !.pc = "done", !.result = EmptyKV,
                         !.loadedLen[l] = Len(loader.result.keys)]
                  /\ dbQueue' = dbQueue
    /\ UNCHANGED <<probe, startStore, seed, persisted, sends, nSends, microtasks, messages,
                   stepLog>>

\* ------------------------------------------------------------ specification
Next ==
    \/ \E text \in Texts : handleSend(text)
    \/ \E s \in SendIds : generateBotResponse(s)
    \/ \E s \in SendIds : handleSendResume(s)
    \/ \E s \in SendIds : typingTick(s)
    \/ putKVStored
    \/ putKVFailed
    \/ \E ok \in BOOLEAN : getKVOpened(ok)
    \/ getKVOpenFailed
    \/ loadAssign

Spec == Init /\ [][Next]_vars

\* The event loop runs a queued microtask as soon as the running code returns.
RunMicrotask ==
    \E s \in SendIds : generateBotResponse(s) \/ handleSendResume(s)

FairSpec == Spec /\ WF_vars(RunMicrotask)

\* The program in an environment in which no save fails: every open request
\* of a putKV succeeds and its transaction commits.
SavesSucceedNext ==
    \/ \E text \in Texts : handleSend(text)
    \/ \E s \in SendIds : generateBotResponse(s)
    \/ \E s \in SendIds : handleSendResume(s)
    \/ \E s \in SendIds : typingTick(s)
    \/ putKVStored
    \/ \E ok \in BOOLEAN : getKVOpened(ok)
    \/ getKVOpenFailed
    \/ loadAssign

SavesSucceedSpec == Init /\ [][SavesSucceedNext]_vars

\* ------------------------------------------- the pure functions on their own
\* matMul, the argmax, one layer of the decoder step and the decoder step,
\* each called once on an input drawn from a bounded set: `probe` holds the
\* input and, once the call has returned, the result.
Entries == (0 - MaxEntry) .. MaxEntry

Dims == 1 .. MaxDim

\* Matrices that differ from row to row and from column to column.
RampMatrix(rows, cols, a, b) ==
    [i \in 1 .. rows |-> [j \in 1 .. cols |-> a * i + b * j]]

\* Matrices with d on the diagonal and o elsewhere; d = 1 and o = 0 give the
\* identity.
DiagMatrix(rows, cols, d, o) ==
    [i \in 1 .. rows |-> [j \in 1 .. cols |-> IF i = j THEN d ELSE o]]

RampMatrices ==
    {RampMatrix(r, c, a, b) : r \in Dims, c \in Dims, a \in Entries, b \in Entries}

DiagMatrices ==
    {DiagMatrix(r, c, d, o) : r \in Dims, c \in Dims, d \in Entries, o \in Entries}

MatMulProbes ==
    {[op |-> "matMul", A |-> A, B |-> B, done |-> FALSE, result |-> <<>>] :
        A \in RampMatrices, B \in DiagMatrices}
    \cup
    {[op |-> "matMul", A |-> A, B |-> B, done |-> FALSE, result |-> <<>>] :
        A \in DiagMatrices, B \in RampMatrices}

\* Vocabulary score vectors, ties included.
ArgmaxProbes ==
    {[op |-> "argmax", logits |-> v, done |-> FALSE, result |-> <<>>] :
        v \in [1 .. vocab_size -> Entries]}

\* A layer entry of nk keys and nv values, as the store can hand it to load
\* (it holds whatever an earlier session, or another program, put there).
StoredEntry(nk, nv) == [keys |-> [p \in 1 .. nk |-> Vec(p)],
                        values |-> [p \in 1 .. nv |-> Vec(1 - p)]]

LayerProbes ==
    {[op |-> "layer", l |-> l, x |-> x, kv |-> StoredEntry(nk, nv),
      done |-> FALSE, result |-> <<>>] :
        l \in Layers, x \in [1 .. d_model -> Entries],
        nk \in 0 .. (MaxPersisted + 1), nv \in 0 .. (MaxPersisted + 1)}

StepProbes ==
    {[op |-> "step", inputToken |-> tok, cache |-> cache,
      done |-> FALSE, result |-> <<>>] :
        tok \in 0 .. (vocab_size - 2),
        cache \in [Layers -> {OldEntry(n) : n \in 0 .. (MaxPersisted + 1)}]}

\* The module is loaded (the weights are drawn) and one call is about to be
\* made; the component is not used.
PureInit ==
    /\ heap = <<>>
    /\ kvCacheRef = [l \in Layers |-> undefined]
    /\ persisted = <<>>
    /\ dbQueue = <<>>
    /\ loader = [pc |-> "done", layer |-> 0, result |-> EmptyKV,
                 failed |-> {}, loadedLen |-> [l \in Layers |-> 0]]
    /\ sends = [s \in SendIds |-> IdleSend]
    /\ nSends = 0
    /\ microtasks = <<>>
    /\ messages = <<>>
    /\ stepLog = <<>>
    /\ startStore = persisted
    /\ \/ /\ seed = 1
          /\ probe \in MatMulProbes \cup ArgmaxProbes
       \/ /\ seed \in Seeds
          /\ probe \in LayerProbes \cup StepProbes

ProgramVars == <<seed, heap, kvCacheRef, persisted, dbQueue, loader, sends,
                 nSends, microtasks, messages, stepLog, startStore>>

\* matMul(A, B), App.jsx:54-62.
callMatMul ==
    /\ probe.op = "matMul"
    /\ ~probe.done
    /\ probe' = [probe EXCEPT !.done = TRUE, !.result = matMul(probe.A, probe.B)]
    /\ UNCHANGED ProgramVars

\* logits.indexOf(Math.max(...logits)), App.jsx:117.
callIndexOfMax ==
    /\ probe.op = "argmax"
    /\ ~probe.done
    /\ probe' = [probe EXCEPT !.done = TRUE, !.result = IndexOfMax(probe.logits)]
    /\ UNCHANGED ProgramVars

\* One iteration of the layer loop, App.jsx:97-111, on the entry kv.
callAttendLayer ==
    /\ probe.op = "layer"
    /\ ~probe.done
    /\ probe' = [probe EXCEPT !.done = TRUE,
                              !.result = AttendLayer(probe.l, probe.x, probe.kv)]
    /\ UNCHANGED ProgramVars

\* transformerStep(inputToken), App.jsx:94-119, with kvCacheRef.current
\* holding the cache of the input.
callTransformerStep ==
    /\ probe.op = "step"
    /\ ~probe.done
    /\ probe' = [probe EXCEPT
           !.done = TRUE,
           !.result = transformerStep(probe.inputToken,
                                      [l \in Layers |-> probe.cache[l]],
                                      [l \in Layers |-> StepObj(l)], <<>>)]
    /\ UNCHANGED ProgramVars

PureNext ==
    \/ callMatMul
    \/ callIndexOfMax
    \/ callAttendLayer
    \/ callTransformerStep

PureSpec == PureInit /\ [][PureNext]_vars

\* ------------------------------------------------- vocabulary of the claims
IsPrefixSeq(a, b) ==
    /\ Len(a) <= Len(b)
    /\ \A i \in 1 .. Len(a) : a[i] = b[i]

\* Entry e is what entry f began as: f is e with pairs appended.
EntryPrefix(e, f) ==
    /\ IsPrefixSeq(e.keys, f.keys)
    /\ IsPrefixSeq(e.values, f.values)

\* The number of key/value pairs layer l holds in memory, none counting as 0.
CacheLen(l) == Len(CacheValue(l).keys)

\* The transformerStep invocations made by send s, in order.
StepsOf(s) == SelectSeq(stepLog, LAMBDA e : e.send = s)

InLoop(s) == sends[s].pc = "awaitStep"

Returned(s) == sends[s].pc \in {"awaitGenerate", "typing", "done"}

\* generateBotResponse of send s has just returned: handleSend is about to
\* resume with the result.
AtReturn(s) == sends[s].pc = "awaitGenerate"

\* The putKV requests still waiting for their database.
PendingPuts == SelectSeq(dbQueue, LAMBDA r : r.kind = "put")

\* The step at the head of the open queue is a putKV that settles (stored or
\* failed) in this step.
SaveSettles ==
    /\ dbQueue # <<>>
    /\ Head(dbQueue).kind = "put"
    /\ dbQueue' = Tail(dbQueue)

\* ------------------------------------------------------------------- claims

\* C1: in every reachable state, for every layer, the in-memory cache entry
\* has as many keys as values (the store only ever holds entries of equal
\* lengths at process start, so every loaded entry has equal lengths too).
C1_KeysValuesSameLength ==
    \A l \in Layers : Len(CacheValue(l).keys) = Len(CacheValue(l).values)

\* C1 witness: a layer whose entry was loaded with at least one pair and then
\* grew by a decoder step.
C1_Witness ==
    \E l \in Layers :
        /\ kvCacheRef[l] = LoadObj(l)
        /\ loader.loadedLen[l] >= 1
        /\ CacheLen(l) > loader.loadedLen[l]
        /\ Len(CacheValue(l).values) > loader.loadedLen[l]

\* C2: the in-memory cache is append-only: in every step of the program,
\* what a layer held before is a prefix of what it holds after.
C2_AppendOnly ==
    [][\A l \in Layers : EntryPrefix(CacheValue(l), CacheValue(l)')]_vars

\* C3: every decoder step adds one pair to every layer, and this accumulates:
\* after N steps in total a layer holds its initial length (that of the entry
\* the load gave it, 0 when none) plus N.
C3_LengthIsInitialPlusSteps ==
    \A l \in Layers : CacheLen(l) = loader.loadedLen[l] + Len(stepLog)

\* The decoder step as a function of the input token and of the cache as a
\* value (layer -> entry): the token it returns and the cache it leaves.
StepValue(tok, cache) ==
    Only({[out |-> r.maxIdx, cache |-> [l \in Layers |-> r.heap[StepObj(l)]]] :
            r \in {transformerStep(tok, [l \in Layers |-> cache[l]],
                                   [l \in Layers |-> StepObj(l)], <<>>)}})

\* The autoregressive chain t1 = step(first), t(i+1) = step(t(i)), uncut: its
\* first n results, each with the cache it left.
RECURSIVE Chain(_, _, _)
Chain(tok, cache, n) ==
    IF n = 0 THEN <<>>
    ELSE Only({<<r>> \o Chain(r.out, r.cache, n - 1) :
                 r \in {StepValue(tok, cache)}})

\* The number of results of the chain c before its first EOS.
BeforeEOS(c) ==
    IF \E i \in 1 .. Len(c) : c[i].out = EOS
    THEN (CHOOSE i \in 1 .. Len(c) :
            /\ c[i].out = EOS
            /\ \A j \in 1 .. (i - 1) : c[j].out # EOS) - 1
    ELSE Len(c)

\* The chain cut before its first EOS: the tokens only.
CutAtEOS(c) == [i \in 1 .. BeforeEOS(c) |-> c[i].out]

\* The cache the chain leaves when it stops at its first EOS or at its end.
CacheAtStop(c) == c[IF BeforeEOS(c) < Len(c) THEN BeforeEOS(c) + 1 ELSE Len(c)].cache

\* The chain of send s: from its first input token and the cache its first
\* step found, maxTokens results long.
ChainOf(s) ==
    Chain(sends[s].userTokens[1], StepsOf(s)[1].before, maxTokens)

\* C4: the generation loop invokes the decoder step at most maxTokens times,
\* and a loop that has started comes to its end, whatever the first token and
\* the cache are, EOS or not.
C4_GenerationTerminates ==
    /\ [](\A s \in SendIds : Len(StepsOf(s)) <= maxTokens)
    /\ \A s \in SendIds : InLoop(s) ~> Returned(s)

\* C4 witness: a generation that returned after maxTokens steps none of which
\* produced EOS.
C4_Witness ==
    \E s \in SendIds :
        /\ Returned(s)
        /\ Len(StepsOf(s)) = maxTokens
        /\ \A i \in 1 .. maxTokens : StepsOf(s)[i].out # EOS

\* C5: what generate returns is the chain cut before its first EOS or after
\* maxTokens tokens: it holds no EOS, is at most maxTokens long, and is
\* maxTokens long only when none of the first maxTokens results is EOS.
C5_ReturnsCutChain ==
    \A s \in SendIds :
        AtReturn(s) =>
            \E c \in {ChainOf(s)} :
                /\ sends[s].outputTokens = CutAtEOS(c)
                /\ \A i \in 1 .. Len(sends[s].outputTokens) :
                       sends[s].outputTokens[i] # EOS
                /\ Len(sends[s].outputTokens) <= maxTokens
                /\ Len(sends[s].outputTokens) = maxTokens =>
                       \A i \in 1 .. maxTokens : c[i].out # EOS

\* C5 witness: a returned sequence that was cut at an EOS after at least one
\* token.
C5_Witness ==
    \E s \in SendIds :
        /\ AtReturn(s)
        /\ Len(sends[s].outputTokens) >= 1
        /\ Len(sends[s].outputTokens) < maxTokens
        /\ StepsOf(s)[Len(StepsOf(s))].out = EOS

\* C6: at most one generation is in flight: the steps of two generation
\* loops never interleave, and when a step of another loop follows a step of
\* one loop, the earlier loop had come to its end (EOS, or maxTokens steps).
C6_OneGenerationInFlight ==
    /\ Cardinality({s \in SendIds : InLoop(s)}) <= 1
    /\ \A i \in 1 .. Len(stepLog) : \A k \in i .. Len(stepLog) :
           stepLog[i].send = stepLog[k].send =>
               \A j \in i .. k : stepLog[j].send = stepLog[i].send
    /\ \A i \in 1 .. (Len(stepLog) - 1) :
           stepLog[i + 1].send # stepLog[i].send =>
               \/ stepLog[i].out = EOS
               \/ Len(SelectSeq(SubSeq(stepLog, 1, i),
                                LAMBDA e : e.send = stepLog[i].send)) = maxTokens

\* C6 witness: a second send is in its generation loop while the first is
\* still typing its answer.
C6_Witness ==
    \E s, t \in SendIds :
        /\ sends[s].pc = "typing"
        /\ InLoop(t)
        /\ Len(StepsOf(t)) >= 1

\* C7: a missing entry or a failed load of a layer is never fatal: the loop
\* over the layers goes on, the layer counts as empty, and the first decoder
\* step leaves it with one pair.
C7_LoadFailureNotFatal ==
    /\ loader.pc # "rejected"
    /\ \A l \in loader.failed \cup (Layers \ DOMAIN startStore) :
           /\ loader.loadedLen[l] = 0
           /\ stepLog # <<>> => Len(stepLog[1].after[l].keys) = 1

\* C8: the outcome of the saves never reaches the generation: a save that
\* settles, stored or failed, changes nothing in memory, and what a
\* generation returns and the cache it leaves are those of the chain from its
\* first token and the cache it started on, whatever became of the saves.
C8_SavesDoNotInfluenceGeneration ==
    /\ [](\A s \in SendIds :
            AtReturn(s) =>
                \E c \in {ChainOf(s)} :
                    /\ sends[s].outputTokens = CutAtEOS(c)
                    /\ CacheState = CacheAtStop(c))
    /\ [][SaveSettles =>
            UNCHANGED <<heap, kvCacheRef, sends, microtasks, messages, stepLog>>]_vars

\* C8 witness: a second generation returns after the saves of the first have
\* all settled, one layer stored and another not.
C8_Witness ==
    /\ nSends = 2
    /\ AtReturn(2)
    /\ Len(PendingPuts) = n_layers * Len(StepsOf(2))
    /\ \E l \in Layers :
           l \in DOMAIN persisted /\ (l \in DOMAIN startStore => persisted[l] # startStore[l])
    /\ \E l \in Layers :
           IF l \in DOMAIN startStore
           THEN persisted[l] = startStore[l]
           ELSE l \notin DOMAIN persisted

\* C9: a layer that has a persisted entry of n pairs at process start is
\* decoded on a cache that contains those n pairs: every step finds them, and
\* the first step leaves the layer with n + 1 pairs.
C9_StepsSeePersistedEntry ==
    \A l \in DOMAIN startStore :
        \A i \in 1 .. Len(stepLog) :
            /\ EntryPrefix(startStore[l], stepLog[i].before[l])
            /\ i = 1 => Len(stepLog[1].after[l].keys) = Len(startStore[l].keys) + 1

\* C10: the decoder step is deterministic: two invocations with the same input
\* token on equal caches return the same token and leave equal caches, and
\* every invocation leaves each layer as it found it plus one pair.
C10_StepDeterministic ==
    /\ \A i, j \in 1 .. Len(stepLog) :
           (/\ stepLog[i].inputToken = stepLog[j].inputToken
            /\ stepLog[i].before = stepLog[j].before)
           => (/\ stepLog[i].out = stepLog[j].out
               /\ stepLog[i].after = stepLog[j].after)
    /\ \A i \in 1 .. Len(stepLog) : \A l \in Layers :
           /\ EntryPrefix(stepLog[i].before[l], stepLog[i].after[l])
           /\ Len(stepLog[i].after[l].keys) = Len(stepLog[i].before[l].keys) + 1
           /\ Len(stepLog[i].after[l].values) = Len(stepLog[i].before[l].values) + 1

\* C10 witness: two invocations, of different sends, with the same input
\* token on equal caches that are not empty.
C10_Witness ==
    \E i, j \in 1 .. Len(stepLog) :
        /\ i < j
        /\ stepLog[i].send # stepLog[j].send
        /\ stepLog[i].inputToken = stepLog[j].inputToken
        /\ stepLog[i].before = stepLog[j].before
        /\ \E l \in Layers : stepLog[i].before[l] # EmptyKV

\* The entry kv cut to its shorter sequence.
Truncated(kv) ==
    LET n == IF Len(kv.keys) <= Len(kv.values) THEN Len(kv.keys) ELSE Len(kv.values)
    IN [keys |-> SubSeq(kv.keys, 1, n), values |-> SubSeq(kv.values, 1, n)]

\* The call came back with attention computed: scores, the entry and x.
ReturnedAttention(r) == DOMAIN r = {"kv", "scores", "x"}

\* C11: a layer of the decoder step run on an entry whose keys and values
\* differ in length does not come back with attention over the mismatched
\* lengths: it fails (CacheCorruption), or its result is the one of the entry
\* truncated to the shorter length.
C11_MismatchFailsOrTruncates ==
    (probe.op = "layer" /\ probe.done /\ Len(probe.kv.keys) # Len(probe.kv.values))
    => \/ ~ReturnedAttention(probe.result)
       \/ probe.result = AttendLayer(probe.l, probe.x, Truncated(probe.kv))

\* m is a matrix of the shape rows x cols.
IsMatrix(m, rows, cols) ==
    /\ Len(m) = rows
    /\ \A i \in 1 .. rows : Len(m[i]) = cols

Identity(n) == DiagMatrix(n, n, 1, 0)

\* The part of C12 about valid shapes: the result has the shape
\* (A.rows, B.cols), and a product with an identity is the other factor.
MatMulOnValidShapes ==
    (probe.op = "matMul" /\ probe.done /\ Len(probe.A[1]) = Len(probe.B))
    => /\ IsMatrix(probe.result, Len(probe.A), Len(probe.B[1]))
       /\ probe.B = Identity(Len(probe.B)) => probe.result = probe.A
       /\ probe.A = Identity(Len(probe.A)) => probe.result = probe.B

\* C12: matMul(A, B) with A.cols # B.rows fails (ShapeMismatch) instead of
\* returning a matrix; with A.cols = B.rows the result has the shape
\* (A.rows, B.cols), and multiplying by an identity returns the original.
C12_MatMulContract ==
    /\ (probe.op = "matMul" /\ probe.done /\ Len(probe.A[1]) # Len(probe.B))
       => ~IsMatrix(probe.result, Len(probe.A), Len(probe.B[1]))
    /\ MatMulOnValidShapes

\* C13: the token of a decoder step is the smallest index at which the score
\* vector has its maximum, and it is an integer of 0 .. vocab_size - 1, for
\* every vector of finite scores.
C13_GreedyArgmaxFirst ==
    /\ (probe.op = "argmax" /\ probe.done)
       => /\ probe.result \in 0 .. (vocab_size - 1)
          /\ \A j \in 1 .. Len(probe.logits) :
                 probe.logits[j] <= probe.logits[probe.result + 1]
          /\ \A j \in 1 .. probe.result :
                 probe.logits[j] < probe.logits[probe.result + 1]
    /\ (probe.op = "step" /\ probe.done)
       => probe.result.maxIdx \in 0 .. (vocab_size - 1)

\* C13 witness: the maximum is attained at two indices, neither the first of
\* the vector, and the earlier one was returned.
C13_Witness ==
    /\ probe.op = "argmax"
    /\ probe.done
    /\ probe.result >= 1
    /\ \E j \in (probe.result + 2) .. Len(probe.logits) :
           probe.logits[j] = probe.logits[probe.result + 1]

\* The input vector of layer l in a step on the token tok and the cache: the
\* embedding for layer 0, the output of layer l - 1 after that.
RECURSIVE LayerInput(_, _, _)
LayerInput(tok, cache, l) ==
    IF l = 0 THEN W_embed[tok + 1]
    ELSE Only({AttendLayer(l - 1, xin, cache[l - 1]).x :
                 xin \in {LayerInput(tok, cache, l - 1)}})

Dot(a, b) == SumSeq([i \in 1 .. Len(a) |-> a[i] * b[i]])

\* C14: in a decoder step every layer appends its pair before it scores: the
\* scores, and the probabilities, are as many as the entry has pairs after
\* the append (one more than before), the last of them is the current token's
\* own key against its query, and the layers run in increasing order, each
\* on the output of the one before, the token coming from the last.
C14_AppendBeforeAttention ==
    (probe.op = "step" /\ probe.done)
    => /\ \A l \in Layers :
             \E xin \in {LayerInput(probe.inputToken, probe.cache, l)} :
             \E r \in {AttendLayer(l, xin, probe.cache[l])} :
                /\ Len(r.kv.keys) = Len(probe.cache[l].keys) + 1
                /\ Len(r.scores) = Len(r.kv.keys)
                /\ Len(softmax(r.scores)) = Len(r.kv.keys)
                /\ r.kv.keys[Len(r.kv.keys)] = matMul(<<xin>>, Wk(l))[1]
                /\ r.scores[Len(r.scores)] =
                       Dot(matMul(<<xin>>, Wk(l))[1], matMul(<<xin>>, Wq(l))[1])
                /\ probe.result.heap[StepObj(l)] = r.kv
       /\ \E xout \in {LayerInput(probe.inputToken, probe.cache, n_layers)} :
          \E logits \in {matMul(<<xout>>, W_out)[1]} :
             probe.result.maxIdx = IndexOfMax(logits)

\* C14 witness: a step on a cache that held pairs in every layer, in which
\* the second layer's input is not the first layer's.
C14_Witness ==
    /\ probe.op = "step"
    /\ probe.done
    /\ \A l \in Layers :
           /\ Len(probe.cache[l].keys) >= 1
           /\ Len(probe.result.heap[StepObj(l)].keys) = Len(probe.cache[l].keys) + 1
    /\ LayerInput(probe.inputToken, probe.cache, 1)
           # LayerInput(probe.inputToken, probe.cache, 0)

\* C15: respond depends on the user's text through its first token only: two
\* sends whose texts encode to the same first token and whose generations
\* started on equal caches returned the same tokens and left equal caches,
\* whatever the other characters were.
C15_DependsOnFirstTokenOnly ==
    \A s, t \in SendIds :
        (/\ Returned(s)
         /\ Returned(t)
         /\ sends[s].userTokens[1] = sends[t].userTokens[1]
         /\ StepsOf(s)[1].before = StepsOf(t)[1].before)
        => /\ sends[s].outputTokens = sends[t].outputTokens
           /\ StepsOf(s)[Len(StepsOf(s))].after = StepsOf(t)[Len(StepsOf(t))].after

\* C15 witness: two sends with different texts, the same first token and
\* equal caches at their start, both returned, with at least one token.
C15_Witness ==
    \E s, t \in SendIds :
        /\ Returned(s)
        /\ Returned(t)
        /\ sends[s].userTokens # sends[t].userTokens
        /\ sends[s].userTokens[1] = sends[t].userTokens[1]
        /\ StepsOf(s)[1].before = StepsOf(t)[1].before
        /\ Len(sends[t].outputTokens) >= 1

\* The token ids a decoder step may be given: every id but EOS.
InputTokens == 0 .. (vocab_size - 2)

\* C16: every token passed to the decoder step is in 0 .. vocab_size - 2: a
\* generation is only started for a token sequence that is not empty, encode
\* yields ids of that range only, and what the loop feeds back is the output
\* of the step before, which was not EOS.
C16_StepInputsInRange ==
    /\ \A s \in SendIds :
           sends[s].pc # "idle" =>
               /\ Len(sends[s].userTokens) >= 1
               /\ \A i \in 1 .. Len(sends[s].userTokens) :
                      sends[s].userTokens[i] \in InputTokens
    /\ \A i \in 1 .. Len(stepLog) :
           /\ stepLog[i].inputToken \in InputTokens
           /\ (i > 1 /\ stepLog[i - 1].send = stepLog[i].send) =>
                  /\ stepLog[i - 1].out # EOS
                  /\ stepLog[i].inputToken = stepLog[i - 1].out

\* C16 witness: a text of several characters was sent, and a step ran on a
\* token the loop fed back.
C16_Witness ==
    \E i \in 2 .. Len(stepLog) :
        /\ stepLog[i - 1].send = stepLog[i].send
        /\ stepLog[i].inputToken = stepLog[i - 1].out
        /\ Len(sends[stepLog[i].send].userTokens) >= 2

\* Nothing is left to run but a new send: no generation is in its loop, the
\* load has come to its end, and every save that was issued has completed.
Quiescent ==
    /\ microtasks = <<>>
    /\ \A s \in SendIds : ~InLoop(s)
    /\ loader.pc \in {"done", "rejected"}
    /\ dbQueue = <<>>

\* C17: when every issued save has succeeded and none is left, and no
\* generation runs, the persisted entry of every layer is the layer's
\* in-memory entry: no save of an older state has overwritten a newer one.
\* (In a quiescent state only a new generation can change either of them.)
C17_EventualPersistence ==
    (Quiescent /\ stepLog # <<>>) =>
        \A l \in Layers :
            /\ l \in DOMAIN persisted
            /\ persisted[l] = CacheValue(l)

\* C18: every snapshot a save writes has as many keys as values and is a
\* prefix of, or equal to, the in-memory entry of its layer at that time.
C18_SnapshotsArePrefixes ==
    [][(SaveSettles /\ persisted' # persisted) =>
          \E l \in {Head(dbQueue).layer} :
              /\ Len(persisted'[l].keys) = Len(persisted'[l].values)
              /\ EntryPrefix(persisted'[l], CacheValue(l)')]_vars

BotMessages == SelectSeq(messages, LAMBDA m : m.role = "bot")

UserMessages == SelectSeq(messages, LAMBDA m : m.role = "user")

\* C19: the characters of a send's tokens go, in order and once each, to the
\* bot message created for that send and to no other message: that message
\* holds the decoded tokens typed so far (all of them in the end), and the
\* user's messages stay as they were sent.
C19_TypedIntoOwnMessage ==
    \A s \in SendIds :
        /\ sends[s].pc \in {"typing", "done"} =>
               BotMessages[s].text =
                   decode(SubSeq(sends[s].outputTokens, 1, sends[s].typed))
        /\ sends[s].pc # "idle" =>
               encode(UserMessages[s].text) = sends[s].userTokens

=============================================================================
